---------------------------- MODULE Spec2Model ----------------------------
(***************************************************************************)
(* CodeDocGen (jenish2917/code-docgen): a Django application that stores   *)
(* uploaded code files and generated documentation, generates the          *)
(* documentation through a retry loop around an LLM provider with a        *)
(* template fallback, exports documentation to several file formats and    *)
(* authenticates users.                                                    *)
(*                                                                         *)
(* The module holds one state machine per subsystem, each with its own     *)
(* specification over the shared variable tuple:                           *)
(*   Spec        core/views.py upload views and the CodeFile/Documentation *)
(*               tables (core/models.py)                                   *)
(*   AuthSpec    authentication/views.py, authentication/two_factor_auth.py*)
(*   LlmSpec     core/utils/llm_integration.py generate_documentation and  *)
(*               core/utils/llm_integration_fixed.py                       *)
(*   ExportSpec  core/utils/document_export.py and the export views        *)
(*   AstSpec     core/utils/code_parser.py and backend/.../code_parser.py  *)
(*   ConcSpec    core/views.py handlers running concurrently over the      *)
(*               files they share                                          *)
(***************************************************************************)
EXTENDS Integers, Sequences, FiniteSets, TLC

VARIABLES
    \* ---- core/models.py tables and the last request/response of core/views.py
    codeFiles,        \* set of CodeFile rows
    docs,             \* set of Documentation rows
    nextCodeFileId,   \* AUTOINCREMENT primary key of CodeFile
    nextDocId,        \* AUTOINCREMENT primary key of Documentation
    req,              \* the request the last view call handled
    resp,             \* what that call ended in: a Response, or a raised exception
    \* ---- authentication
    users,            \* set of auth.User rows
    twoFactor,        \* TwoFactorAuth rows, one per user id
    authReq,
    authResp,
    usedBackupCodes,  \* history: the <<user id, backup code>> pairs a request has
                      \* authenticated with since the codes were generated
    passwordStepDone, \* history: the users whose password login_view accepted and
                      \* whose login attempt awaits its second factor
    \* ---- documentation generation (one call)
    llm,              \* record: position, attempt, requests sent, sleeps, result
    \* ---- export
    mediaFiles,       \* files under media/temp: path -> content kind
    exportReq,
    exportResp,
    \* ---- AST documentation
    ast,              \* record: the parsed module and the documents derived from it
    \* ---- requests handled concurrently
    inflight,         \* handler -> the request it is handling and where it stands
    disk              \* the files the handlers share: path -> content

dbVars     == <<codeFiles, docs, nextCodeFileId, nextDocId, req, resp>>
authVars   == <<users, twoFactor, authReq, authResp, passwordStepDone,
                usedBackupCodes>>
llmVars    == <<llm>>
exportVars == <<mediaFiles, exportReq, exportResp>>
astVars    == <<ast>>
concVars   == <<inflight, disk>>
vars       == <<dbVars, authVars, llmVars, exportVars, astVars, concVars>>

\* The value of a request field that was not sent, and of an id that was not set.
NoVal == "<none>"
NoId  == 0

(***************************************************************************)
(* Idle values: what a subsystem's variables hold under the specification  *)
(* of another subsystem.                                                   *)
(***************************************************************************)
DbIdle ==
    /\ codeFiles = {} /\ docs = {} /\ nextCodeFileId = 1 /\ nextDocId = 1
    /\ req = [view |-> "none"] /\ resp = [view |-> "none"]
AuthIdle ==
    /\ users = {} /\ twoFactor = <<>> /\ authReq = [view |-> "none"]
    /\ authResp = [view |-> "none"] /\ passwordStepDone = {}
    /\ usedBackupCodes = {}
LlmIdle    == llm = [pc |-> "idle"]
ExportIdle ==
    /\ mediaFiles = {} /\ exportReq = [view |-> "none"]
    /\ exportResp = [view |-> "none"]
AstIdle    == ast = [pc |-> "idle"]
ConcIdle   == inflight = <<>> /\ disk = <<>>

(***************************************************************************)
(*                  core/views.py and core/models.py                       *)
(***************************************************************************)

\* Bound: the number of CodeFile rows the model creates.
MaxRows == 2

\* core/views.py:118
MAX_FILE_SIZE == 10 * 1024 * 1024

\* str.lower() on the names, suffixes and format names the model handles.
Lower(s) ==
    CASE s = ".PY" -> ".py"
      [] s = "PDF" -> "pdf"
      [] s = "Dockerfile" -> "dockerfile"
      [] s = "README" -> "readme"
      [] OTHER -> s

\* core/utils/llm_integration.py:20-60: suffix -> language
SUPPORTED_CODE_EXTENSIONS ==
    { <<".py", "Python">>, <<".js", "JavaScript">>, <<".jsx", "React JSX">>,
      <<".ts", "TypeScript">>, <<".tsx", "React TypeScript">>, <<".java", "Java">>,
      <<".c", "C">>, <<".cpp", "C++">>, <<".cc", "C++">>, <<".cxx", "C++">>,
      <<".h", "C/C++ Header">>, <<".hpp", "C++ Header">>, <<".cs", "C#">>,
      <<".php", "PHP">>, <<".rb", "Ruby">>, <<".go", "Go">>, <<".rs", "Rust">>,
      <<".swift", "Swift">>, <<".kt", "Kotlin">>, <<".scala", "Scala">>,
      <<".r", "R">>, <<".m", "Objective-C">>, <<".mm", "Objective-C++">>,
      <<".sh", "Shell Script">>, <<".bash", "Bash Script">>, <<".ps1", "PowerShell">>,
      <<".sql", "SQL">>, <<".html", "HTML">>, <<".css", "CSS">>, <<".scss", "SCSS">>,
      <<".sass", "Sass">>, <<".less", "LESS">>, <<".xml", "XML">>, <<".json", "JSON">>,
      <<".yaml", "YAML">>, <<".yml", "YAML">>, <<".md", "Markdown">>,
      <<".dockerfile", "Dockerfile">>, <<".makefile", "Makefile">> }

SupportedSuffixes == {p[1] : p \in SUPPORTED_CODE_EXTENSIONS}

\* An uploaded file: Path(name).name without the suffix, Path(name).suffix, size.
is_supported_file(f) ==
    LET ext == Lower(f.ext) IN
    IF ext = "" /\ Lower(f.name) \in {"dockerfile", "makefile", "rakefile", "gemfile"}
    THEN TRUE
    ELSE ext \in SupportedSuffixes

get_file_language(f) ==
    LET ext == Lower(f.ext) IN
    IF ext = "" /\ Lower(f.name) = "dockerfile" THEN "Dockerfile"
    ELSE IF ext = "" /\ Lower(f.name) \in {"makefile", "rakefile"} THEN "Makefile"
    ELSE IF ext = "" /\ Lower(f.name) = "gemfile" THEN "Ruby"
    ELSE IF ext \in SupportedSuffixes
         THEN (CHOOSE p \in SUPPORTED_CODE_EXTENSIONS : p[1] = ext)[2]
    ELSE "Code"

\* UploadCodeView._validate_file
validate_file(f) == ~(f.size > MAX_FILE_SIZE)

\* The files a client uploads: below the limit, at the limit with an upper-case
\* suffix, above the limit, an unsupported suffix, supported and unsupported
\* names without a suffix.
UploadFiles ==
    { [name |-> "a",          ext |-> ".py",  size |-> 1],
      [name |-> "a",          ext |-> ".PY",  size |-> MAX_FILE_SIZE],
      [name |-> "big",        ext |-> ".py",  size |-> MAX_FILE_SIZE + 1],
      [name |-> "notes",      ext |-> ".pdf", size |-> 1],
      [name |-> "Dockerfile", ext |-> "",     size |-> 1],
      [name |-> "README",     ext |-> "",     size |-> 1] }

\* Where a call of UploadCodeView.post can raise: os.makedirs (line 180), the
\* import of llm_integration (185), CodeFile.objects.create (193), the write of
\* media/<name> (201), the write of docs_output/<name>_doc.md (209),
\* Documentation.objects.create (213).
UploadFaults ==
    {"none", "makedirs", "import", "create_code_file", "save_file", "write_doc",
     "create_documentation"}

\* What parse_codebase (core/utils/codebase_analyzer.py:11-22) labels its
\* document with; it returns for every input and never raises.
Generators == {"AI-Enhanced", "Fallback", "error"}

\* The authenticated users that send requests (permission_classes IsAuthenticated).
RequestUsers == {1}

NoResp(view) ==
    [view |-> view, kind |-> "none", code |-> 0, status |-> "", message |-> "",
     code_file_id |-> NoId, documentation_id |-> NoId, generator |-> "",
     ai_generated |-> FALSE]

Response(view, code, status, message) ==
    [NoResp(view) EXCEPT !.kind = "response", !.code = code, !.status = status,
                         !.message = message]

\* An exception that leaves the view: track_performance logs and re-raises it.
Raised(view, what) ==
    [NoResp(view) EXCEPT !.kind = "raised", !.message = what]

\* track_performance: the wrapped call's result, or its exception re-raised.
track_performance(result) == result

\* CodeFile.objects.create(title=..., file=..., language=...)
NewCodeFile(id, f) ==
    [id |-> id, title |-> <<f.name, f.ext>>, language |-> get_file_language(f)]

NewDocumentationWrongFile(id, code_file, owner) ==
    [id |-> id, code_file |-> code_file + 1, format |-> "md", owner |-> owner]

\* Documentation.objects.create(code_file=..., content=..., file_path=..., owner=...)
\* format takes the model's default.
NewDocumentation(id, code_file, owner) ==
    [id |-> id, code_file |-> code_file, format |-> "md", owner |-> owner]

\* The body of UploadCodeView.post: the tables and the result it ends in.
UploadCodeView_post_body(hasFile, f, fault, gen, user) ==
    LET same(r) == [codeFiles |-> codeFiles, docs |-> docs,
                    nextCodeFileId |-> nextCodeFileId, nextDocId |-> nextDocId,
                    resp |-> r]
        cf      == NewCodeFile(nextCodeFileId, f)
        doc     == NewDocumentation(nextDocId, cf.id, user)
        created == [same(Response("upload", 500, "error", "error_generating"))
                       EXCEPT !.codeFiles = codeFiles \cup {cf},
                              !.nextCodeFileId = nextCodeFileId + 1]
    IN
    IF ~hasFile THEN same(Response("upload", 400, "error", "no_file"))
    ELSE IF ~validate_file(f) THEN same(Response("upload", 400, "error", "too_large"))
    ELSE IF fault = "makedirs" THEN same(Raised("upload", "makedirs"))
    ELSE IF fault = "import" THEN same(Response("upload", 500, "error", "error_saving"))
    ELSE IF ~is_supported_file(f)
         THEN same(Response("upload", 400, "error", "unsupported"))
    ELSE IF fault = "create_code_file"
         THEN same(Response("upload", 500, "error", "error_generating"))
    ELSE IF fault \in {"save_file", "write_doc", "create_documentation"}
         THEN created
    ELSE [created EXCEPT
            !.docs = docs \cup {doc},
            !.nextDocId = nextDocId + 1,
            !.resp = [Response("upload", 200, "success", "ok") EXCEPT
                        !.code_file_id = cf.id,
                        !.documentation_id = doc.id,
                        !.generator = gen,
                        !.ai_generated = gen \in {"AI-Enhanced", "AI-Generated", "ollama"}]]

UploadCodeView_post(hasFile, f, fault, gen, user) ==
    LET out == UploadCodeView_post_body(hasFile, f, fault, gen, user) IN
    /\ nextCodeFileId <= MaxRows
    /\ req' = [view |-> "upload", hasFile |-> hasFile, file |-> f, fault |-> fault,
               user |-> user]
    /\ codeFiles' = out.codeFiles
    /\ docs' = out.docs
    /\ nextCodeFileId' = out.nextCodeFileId
    /\ nextDocId' = out.nextDocId
    /\ resp' = track_performance(out.resp)
    /\ UNCHANGED <<authVars, llmVars, exportVars, astVars, concVars>>

OnDeleteDoNothing(rows, code_file_id) == rows

\* Documentation.code_file: on_delete=models.CASCADE
OnDeleteCascade(rows, code_file_id) ==
    {d \in rows : d.code_file # code_file_id}

\* CodeFile.delete(), reachable through CodeFileAdmin (core/admin.py).
CodeFile_delete(id) ==
    /\ \E c \in codeFiles : c.id = id
    /\ req' = [view |-> "delete_code_file", id |-> id,
               had_docs |-> (\E d \in docs : d.code_file = id)]
    /\ codeFiles' = {c \in codeFiles : c.id # id}
    /\ docs' = OnDeleteCascade(docs, id)
    /\ resp' = NoResp("delete_code_file")
    /\ UNCHANGED <<nextCodeFileId, nextDocId>>
    /\ UNCHANGED <<authVars, llmVars, exportVars, astVars, concVars>>

\* CodeFileListView.get without user_id: every row with its first documentation.
CodeFileListView_get ==
    /\ req' = [view |-> "list_files"]
    /\ resp' = [Response("list_files", 200, "success", "ok") EXCEPT
                  !.code_file_id = Cardinality(codeFiles),
                  !.documentation_id =
                      Cardinality({c \in codeFiles : \E d \in docs : d.code_file = c.id})]
    /\ UNCHANGED <<codeFiles, docs, nextCodeFileId, nextDocId>>
    /\ UNCHANGED <<authVars, llmVars, exportVars, astVars, concVars>>

FORMAT_CHOICES_with_docx == {"md", "html", "txt", "rtf", "pdf", "docx"}

\* Documentation.format choices (core/models.py:60-66).
FORMAT_CHOICES == {"md", "html", "txt", "rtf", "pdf"}

\* The values a change form submits for format.
SubmittedFormats == {"md", "pdf", "docx", ""}

\* The change form of DocumentationAdmin (core/admin.py:11-16) saving row id
\* with a submitted format: the model form validates the field against its
\* choices and saves only a valid form.
DocumentationAdmin_change(id, format) ==
    /\ \E d \in docs : d.id = id
    /\ req' = [view |-> "change_documentation", id |-> id, format |-> format]
    /\ IF format \in FORMAT_CHOICES
       THEN /\ docs' = {IF d.id = id THEN [d EXCEPT !.format = format] ELSE d :
                          d \in docs}
            /\ resp' = Response("change_documentation", 302, "saved", "")
       ELSE /\ docs' = docs
            /\ resp' = Response("change_documentation", 200, "invalid",
                                "Select a valid choice.")
    /\ UNCHANGED <<codeFiles, nextCodeFileId, nextDocId>>
    /\ UNCHANGED <<authVars, llmVars, exportVars, astVars, concVars>>

DbInit ==
    /\ codeFiles = {} /\ docs = {} /\ nextCodeFileId = 1 /\ nextDocId = 1
    /\ req = [view |-> "none"] /\ resp = NoResp("none")

Init == DbInit /\ AuthIdle /\ LlmIdle /\ ExportIdle /\ AstIdle /\ ConcIdle

Next ==
    \/ \E hasFile \in BOOLEAN, f \in UploadFiles, fault \in UploadFaults,
          gen \in Generators, user \in RequestUsers :
          UploadCodeView_post(hasFile, f, fault, gen, user)
    \/ \E id \in 1..MaxRows : CodeFile_delete(id)
    \/ CodeFileListView_get
    \/ \E id \in 1..MaxRows, format \in SubmittedFormats :
          DocumentationAdmin_change(id, format)

Spec == Init /\ [][Next]_vars


(***************************************************************************)
(*                Claims on the upload views and the tables                *)
(***************************************************************************)

\* The rows a successful upload leaves: exactly one new CodeFile row, exactly
\* one new Documentation row that references it, both named by the response.
UploadCreatedRows ==
    /\ codeFiles \subseteq codeFiles' /\ docs \subseteq docs'
    /\ Cardinality(codeFiles' \ codeFiles) = 1
    /\ Cardinality(docs' \ docs) = 1
    /\ \E c \in codeFiles' \ codeFiles, d \in docs' \ docs :
          /\ d.code_file = c.id
          /\ resp'.code_file_id = c.id
          /\ resp'.documentation_id = d.id
          /\ \A c2 \in codeFiles' : c2.id = c.id => c2 = c
          /\ \A d2 \in docs' : d2.id = d.id => d2 = d

\* C1: an upload of a supported file within the 10 MB limit through
\* UploadCodeView (no step of it failing) ends in a success response and leaves
\* exactly one new CodeFile row and one new Documentation row whose code_file is
\* that CodeFile; every success response's code_file_id and documentation_id
\* identify the two rows the call created.
C1_UploadCreatesRows ==
    [][ /\ ( /\ req'.view = "upload"
             /\ req'.hasFile
             /\ is_supported_file(req'.file)
             /\ req'.file.size <= MAX_FILE_SIZE
             /\ req'.fault = "none" )
           => ( /\ resp'.kind = "response" /\ resp'.status = "success"
                /\ UploadCreatedRows )
        /\ ( req'.view = "upload" /\ resp'.status = "success" )
           => UploadCreatedRows
      ]_vars

\* C1 witness: a file of exactly MAX_FILE_SIZE bytes was uploaded with success
\* and both rows the response names exist.
C1_Witness ==
    /\ req.view = "upload" /\ resp.status = "success"
    /\ req.file.size = MAX_FILE_SIZE
    /\ \E c \in codeFiles, d \in docs :
          c.id = resp.code_file_id /\ d.id = resp.documentation_id
          /\ d.code_file = c.id

\* C7: every exception raised while an API view handles a request is caught and
\* converted into a JSON error response: no call ends in an exception that
\* leaves the view.
C7_NoExceptionLeavesView == resp.kind # "raised"

\* C10: every Documentation row references an existing CodeFile, after any
\* sequence of uploads and CodeFile deletions.
C10_ForeignKeyIntegrity ==
    \A d \in docs : \E c \in codeFiles : c.id = d.code_file

\* C10 witness: a CodeFile that had documentation was deleted while the
\* documentation of another CodeFile remains.
C10_Witness ==
    /\ req.view = "delete_code_file" /\ req.had_docs
    /\ docs # {}

\* C11: after any sequence of operations the format of every stored
\* Documentation row is one of md, html, txt, rtf, pdf.
C11_FormatEnumMembership ==
    \A d \in docs : d.format \in {"md", "html", "txt", "rtf", "pdf"}

\* C11 witness: a change form that submitted docx was refused while rows
\* created by an upload and changed to pdf are stored.
C11_Witness ==
    /\ req.view = "change_documentation" /\ req.format = "docx"
    /\ resp.status = "invalid"
    /\ \E d \in docs : d.format = "pdf"
    /\ \E d \in docs : d.format = "md"

\* C22: after any sequence of uploads, including uploads in which
\* documentation generation or a write fails part-way, every CodeFile row has
\* a Documentation row: a failed upload leaves no CodeFile behind.
C22_EveryCodeFileHasDocumentation ==
    \A c \in codeFiles : \E d \in docs : d.code_file = c.id


(***************************************************************************)
(*      authentication/views.py and authentication/two_factor_auth.py      *)
(***************************************************************************)

\* The values requests carry; NoVal is a field that is absent or empty.
Emails    == {"e1", "e2"}
Usernames == {"u1", "u2"}
Passwords == {"p1", "p2"}
\* pyotp.random_base32() secrets; the TOTP code valid for a secret is written
\* as the secret itself.
Secrets   == {"s1", "s2"}

\* Where login_view can meet an exception it handles: the 2FA lookup (line 151-174).
LoginFaults == {"none", "two_factor_lookup"}

NoAuthResp(view) ==
    [view |-> view, kind |-> "none", code |-> 0, access |-> NoId, refresh |-> NoId,
     two_factor_required |-> FALSE, user_id |-> NoId, message |-> ""]

AuthResponse(view, code, message) ==
    [NoAuthResp(view) EXCEPT !.kind = "response", !.code = code, !.message = message]

AuthRaised(view, what) ==
    [NoAuthResp(view) EXCEPT !.kind = "raised", !.message = what]

\* RefreshToken.for_user(user): the response carries refresh and access tokens
\* of that user.
TokenResponse(view, user) ==
    [AuthResponse(view, 200, "ok") EXCEPT !.access = user.id, !.refresh = user.id,
                                          !.user_id = user.id]

\* TwoFactorAuth row as create_two_factor_auth (authentication/models.py:44-53)
\* creates it.
NewTwoFactor == [is_enabled |-> FALSE, secret_key |-> NoVal, backup_codes |-> {}]

\* register (authentication/views.py:17-98): the whole handler.  A user's
\* stored password hash is written as the password and the number salt of the
\* set_password call that salted it.
register(email, username, password, confirm_password) ==
    LET id   == Cardinality(users) + 1
        user == [id |-> id, username |-> username, email |-> email,
                 password |-> password, salt |-> 0]
        bad  == \/ email = NoVal \/ username = NoVal \/ password = NoVal
                \/ password # confirm_password
                \/ \E u \in users : u.email = email
                \/ \E u \in users : u.username = username
    IN
    /\ authReq' = [view |-> "register", email |-> email, username |-> username]
    /\ IF bad
       THEN /\ authResp' = AuthResponse("register", 400, "rejected")
            /\ UNCHANGED <<users, twoFactor>>
       ELSE /\ users' = users \cup {user}
            /\ twoFactor' = twoFactor @@ (id :> NewTwoFactor)
            /\ authResp' = AuthResponse("register", 201, "registered")
    /\ UNCHANGED <<passwordStepDone, usedBackupCodes>>
    /\ UNCHANGED <<dbVars, llmVars, exportVars, astVars, concVars>>

authenticate_any_password(username, password) ==
    {u \in users : u.username = username}

\* django.contrib.auth.authenticate(request, username=..., password=...): the
\* user with that username when the password matches, else nobody.
authenticate(username, password) ==
    {u \in users : u.username = username /\ u.password = password}

\* login_view (authentication/views.py:102-212): the whole handler.
login_view_result(email, username, password, fault) ==
    LET found == IF email # NoVal
                 THEN {u \in users : u.email = email}
                 ELSE {u \in users : u.username = username}
    IN
    IF (email = NoVal /\ username = NoVal) \/ password = NoVal
    THEN AuthResponse("login", 400, "missing_credentials")
    ELSE IF found = {} THEN AuthResponse("login", 401, "invalid_credentials")
    ELSE IF Cardinality(found) > 1 THEN AuthRaised("login", "MultipleObjectsReturned")
    ELSE LET user == CHOOSE u \in found : TRUE
             authenticated == authenticate(user.username, password)
         IN IF authenticated = {}
            THEN AuthResponse("login", 401, "invalid_credentials")
            ELSE LET au == CHOOSE u \in authenticated : TRUE IN
                 IF fault = "none" /\ twoFactor[au.id].is_enabled
                 THEN [AuthResponse("login", 200, "two_factor_required") EXCEPT
                          !.two_factor_required = TRUE, !.user_id = au.id]
                 ELSE TokenResponse("login", au)

login_view(email, username, password, fault) ==
    /\ authReq' = [view |-> "login", email |-> email, username |-> username,
                   password |-> password, fault |-> fault]
    /\ authResp' = login_view_result(email, username, password, fault)
    /\ passwordStepDone' =
          IF authResp'.two_factor_required
          THEN passwordStepDone \cup {authResp'.user_id}
          ELSE passwordStepDone \ {authResp'.access}
    /\ UNCHANGED <<users, twoFactor, usedBackupCodes>>
    /\ UNCHANGED <<dbVars, llmVars, exportVars, astVars, concVars>>

\* TwoFactorSetupView.get for the authenticated user u; secret is the value
\* pyotp.random_base32() draws.
TwoFactorSetupView_get(u, force, secret) ==
    /\ u \in DOMAIN twoFactor
    /\ authReq' = [view |-> "2fa_setup_get", user |-> u, force |-> force]
    /\ IF twoFactor[u].is_enabled /\ ~force
       THEN /\ authResp' = AuthResponse("2fa_setup_get", 200, "already_enabled")
            /\ UNCHANGED <<twoFactor, usedBackupCodes>>
       ELSE /\ twoFactor' = [twoFactor EXCEPT ![u].secret_key = secret,
                                              ![u].backup_codes = {<<secret, 1>>}]
            /\ usedBackupCodes' = {p \in usedBackupCodes : p[1] # u}
            /\ authResp' = AuthResponse("2fa_setup_get", 200, "secret")
    /\ UNCHANGED <<users, passwordStepDone>>
    /\ UNCHANGED <<dbVars, llmVars, exportVars, astVars, concVars>>

\* TwoFactorSetupView.post for the authenticated user u.
TwoFactorSetupView_post(u, code) ==
    /\ u \in DOMAIN twoFactor
    /\ authReq' = [view |-> "2fa_setup_post", user |-> u, code |-> code]
    /\ IF code = NoVal
       THEN /\ authResp' = AuthResponse("2fa_setup_post", 400, "code_required")
            /\ UNCHANGED twoFactor
       ELSE IF twoFactor[u].secret_key = NoVal
       THEN \* pyotp.TOTP(None).verify raises; only DoesNotExist is caught
            /\ authResp' = AuthRaised("2fa_setup_post", "TOTP(None)")
            /\ UNCHANGED twoFactor
       ELSE IF code = twoFactor[u].secret_key
       THEN /\ twoFactor' = [twoFactor EXCEPT ![u].is_enabled = TRUE]
            /\ authResp' = AuthResponse("2fa_setup_post", 200, "enabled")
       ELSE /\ authResp' = AuthResponse("2fa_setup_post", 400, "invalid_code")
            /\ UNCHANGED twoFactor
    /\ UNCHANGED <<users, passwordStepDone, usedBackupCodes>>
    /\ UNCHANGED <<dbVars, llmVars, exportVars, astVars, concVars>>

\* TwoFactorDisableView.post for the authenticated user u.
TwoFactorDisableView_post(u) ==
    /\ u \in DOMAIN twoFactor
    /\ authReq' = [view |-> "2fa_disable", user |-> u]
    /\ twoFactor' = [twoFactor EXCEPT ![u] = NewTwoFactor]
    /\ authResp' = AuthResponse("2fa_disable", 200, "disabled")
    /\ UNCHANGED <<users, passwordStepDone, usedBackupCodes>>
    /\ UNCHANGED <<dbVars, llmVars, exportVars, astVars, concVars>>

AuthInit ==
    /\ users = {} /\ twoFactor = <<>>
    /\ authReq = [view |-> "none"] /\ authResp = NoAuthResp("none")
    /\ passwordStepDone = {} /\ usedBackupCodes = {}

AuthNext ==
    \/ \E e \in Emails \cup {NoVal}, n \in Usernames \cup {NoVal},
          pw \in Passwords \cup {NoVal}, cpw \in Passwords :
          register(e, n, pw, cpw)
    \/ \E e \in Emails \cup {NoVal}, n \in Usernames \cup {NoVal},
          pw \in Passwords \cup {NoVal}, fault \in LoginFaults :
          login_view(e, n, pw, fault)
    \/ \E u \in 1..Cardinality(Emails), force \in BOOLEAN, secret \in {"s1"} :
          TwoFactorSetupView_get(u, force, secret)
    \/ \E u \in 1..Cardinality(Emails), code \in {"s1", NoVal} :
          TwoFactorSetupView_post(u, code)
    \/ \E u \in 1..Cardinality(Emails) : TwoFactorDisableView_post(u)

AuthSpecInit == DbIdle /\ AuthInit /\ LlmIdle /\ ExportIdle /\ AstIdle /\ ConcIdle

AuthSpec == AuthSpecInit /\ [][AuthNext]_vars

Doc(source, len, structure, professional, enterprise, hallucinations) ==
    [source |-> source, len |-> len, structure |-> structure,
     professional |-> professional, enterprise |-> enterprise,
     hallucinations |-> hallucinations]

NoDoc == Doc("none", 0, 0, 0, 0, FALSE)

NoResult == [kind |-> "none", doc |-> NoDoc, attempt |-> 0, flag |-> "none"]

Returned(doc, attempt, flag) ==
    [kind |-> "returned", doc |-> doc, attempt |-> attempt, flag |-> flag]

\* The state of one documentation-generation call.
NoCall ==
    [pc |-> "idle", impl |-> "none", attempt |-> 0, requestsSent |-> 0,
     waits |-> <<>>, outcomes |-> <<>>, rejected |-> {}, result |-> NoResult]

\* llm_integration.py:1129-1154
retry_configs_with_fourth ==
    << [timeout |-> 120, quality_target |-> "enterprise"],
       [timeout |-> 90,  quality_target |-> "professional"],
       [timeout |-> 60,  quality_target |-> "commercial"],
       [timeout |-> 60,  quality_target |-> "commercial"] >>

retry_configs ==
    << [timeout |-> 120, quality_target |-> "enterprise"],
       [timeout |-> 90,  quality_target |-> "professional"],
       [timeout |-> 60,  quality_target |-> "commercial"] >>

\* What requests.post and the reading of its result can end in
\* (llm_integration.py:1259-1264, 1349-1352): a Timeout, another exception, a
\* status other than 200, or status 200 with a body.
TransportFailures == {"timeout", "exception", "http_error"}

\* result['response'].strip() of a 200 answer: the text the model sent, with
\* the features the check derives from it.  An absent or blank 'response' has
\* length 0.  The texts are chosen to score 100, 95, 90, 89.99, 85, 80, 75, 70
\* and 65 points.
ResponseBodies ==
    { Doc("llm", 0,    0, 0, 0, FALSE),
      Doc("llm", 2000, 8, 8, 5, FALSE),
      Doc("llm", 2000, 8, 8, 5, TRUE),
      Doc("llm", 1000, 8, 8, 5, FALSE),
      Doc("llm", 1999, 4, 8, 5, FALSE),
      Doc("llm", 1000, 8, 8, 5, TRUE),
      Doc("llm", 2000, 8, 8, 0, FALSE),
      Doc("llm", 2000, 8, 8, 0, TRUE),
      Doc("llm", 1000, 10, 8, 0, FALSE),
      Doc("llm", 1000, 8, 8, 0, TRUE) }

\* The answers to one request: a transport failure, or status 200 with a body.
OllamaAnswers ==
    {[status |-> f, body |-> NoDoc] : f \in TransportFailures}
    \cup {[status |-> "ok", body |-> b] : b \in ResponseBodies}

Min(a, b) == IF a <= b THEN a ELSE b

\* total_quality_score (llm_integration.py:1316-1322) times 100, which keeps
\* it an integer: min(len/2000, 1)*20 + min(structure/8, 1)*20 +
\* min(professional/8, 1)*30 + min(enterprise/5, 1)*20 + (10 or 5).
total_quality_score(doc) ==
      Min(doc.len, 2000)
    + 250 * Min(doc.structure, 8)
    + 375 * Min(doc.professional, 8)
    + 400 * Min(doc.enterprise, 5)
    + (IF doc.hallucinations THEN 500 ELSE 1000)

QualityTargetMetLenient(quality_target, score) ==
    score >= 7000

\* llm_integration.py:1325-1334, score in hundredths of a point.
QualityTargetMet(quality_target, score) ==
    \/ quality_target = "enterprise"   /\ score >= 9000
    \/ quality_target = "professional" /\ score >= 8000
    \/ quality_target = "commercial"   /\ score >= 7000

empty_fallback_documentation == Doc("fallback", 0, 0, 0, 0, FALSE)

\* generate_comprehensive_fallback_documentation (llm_integration.py:1375-1642):
\* a fixed template of seven "## " sections, more than 2000 characters long
\* whatever the code is, filled in from analyze_code_structure.
generate_comprehensive_fallback_documentation ==
    Doc("fallback", 2000, 10, 3, 5, FALSE)

\* generate_documentation is entered (llm_integration.py:1107-1116);
\* quality_system_available is QUALITY_SYSTEM_AVAILABLE (lines 8-17).
generate_documentation_begin(quality_system_available) ==
    /\ llm.pc \in {"idle", "done"}
    /\ llm' = [NoCall EXCEPT !.pc = IF quality_system_available THEN "quality"
                                    ELSE "attempt",
                             !.impl = "ollama", !.attempt = 1]
    /\ UNCHANGED <<dbVars, authVars, exportVars, astVars, concVars>>

\* llm_integration.py:1116-1126: the advanced quality system returns a document
\* scoring at least 85, one scoring less, or raises.
generate_documentation_quality_system(outcome) ==
    /\ llm.pc = "quality"
    /\ IF outcome = "score_ok"
       THEN llm' = [llm EXCEPT !.pc = "done",
                        !.result = Returned(Doc("quality_system", 2000, 8, 8, 5, FALSE),
                                            0, "True")]
       ELSE llm' = [llm EXCEPT !.pc = "attempt"]
    /\ UNCHANGED <<dbVars, authVars, exportVars, astVars, concVars>>

\* One iteration of "for attempt, config in enumerate(retry_configs, 1)"
\* (llm_integration.py:1156-1358).  answer is what the request ended in.
generate_documentation_attempt(answer) ==
    LET attempt  == llm.attempt
        config   == retry_configs[attempt]
        last     == attempt >= Len(retry_configs)
        llm_output == answer.body
        blank    == answer.status = "ok" /\ llm_output.len = 0
        failed   == answer.status \in TransportFailures \/ blank
        accepted == /\ ~failed
                    /\ QualityTargetMet(config.quality_target,
                                        total_quality_score(llm_output))
        outcome  == IF answer.status \in TransportFailures THEN answer.status
                    ELSE IF blank THEN "empty"
                    ELSE IF accepted THEN "accepted" ELSE "rejected"
    IN
    /\ llm.pc = "attempt"
    /\ llm.attempt <= Len(retry_configs)
    /\ llm' = [llm EXCEPT
                 !.requestsSent = @ + 1,
                 !.outcomes = Append(@, outcome),
                 !.rejected = IF outcome = "rejected"
                              THEN @ \cup {<<attempt, llm_output>>} ELSE @,
                 \* time.sleep(2) after a failure that is not the last attempt;
                 \* a rejected response reaches "continue" and skips the sleep
                 !.waits = IF failed /\ ~last THEN Append(@, 2) ELSE @,
                 !.result = IF accepted THEN Returned(llm_output, attempt, "True")
                            ELSE @,
                 !.attempt = IF accepted THEN @ ELSE @ + 1,
                 !.pc = IF accepted THEN "done"
                        ELSE IF last THEN "fallback" ELSE "attempt"]
    /\ UNCHANGED <<dbVars, authVars, exportVars, astVars, concVars>>

\* After the loop (llm_integration.py:1359-1373).
generate_documentation_fallback ==
    /\ llm.pc = "fallback"
    /\ llm' = [llm EXCEPT
                 !.pc = "done",
                 !.result = Returned(generate_comprehensive_fallback_documentation,
                                     0, "True")]
    /\ UNCHANGED <<dbVars, authVars, exportVars, astVars, concVars>>

\* What the one request of generate_documentation_with_openrouter can end in
\* (llm_integration_fixed.py:455-705).
OpenRouterAnswers ==
    {"ok_full", "ok_basic", "ok_invalid", "http_error", "timeout",
     "request_exception", "json_error", "exception"}

\* generate_documentation_with_openrouter (llm_integration_fixed.py:125-705):
\* the document it returns and the number of requests it sent.  Every branch
\* returns a non-empty document; only the 200 answers carry the model's text.
generate_documentation_with_openrouter(code_empty, api_key_valid, answer) ==
    IF code_empty \/ ~api_key_valid
    THEN [doc |-> Doc("template", 100, 3, 0, 0, FALSE), requests |-> 0]
    ELSE IF answer = "ok_full"
    THEN [doc |-> Doc("llm", 2000, 8, 8, 5, FALSE), requests |-> 1]
    ELSE IF answer = "ok_basic"
    THEN [doc |-> Doc("llm_enhanced", 1000, 8, 2, 3, FALSE), requests |-> 1]
    ELSE [doc |-> Doc("template", 1000, 8, 2, 3, FALSE), requests |-> 1]

\* generate_documentation_with_retry (llm_integration_fixed.py:707-782), one
\* pass of "while retry_count < max_retries" and, when the loop is exhausted,
\* the error document after it.  llm.attempt is retry_count + 1.
generate_documentation_with_retry(first, code_empty, api_key_valid, answer) ==
    LET max_retries == 3
        call  == IF first THEN [NoCall EXCEPT !.impl = "openrouter", !.attempt = 1]
                 ELSE llm
        retry_count == call.attempt - 1
        got   == generate_documentation_with_openrouter(code_empty, api_key_valid,
                                                        answer)
        sent  == call.requestsSent + got.requests
        failed == answer \notin {"ok_full", "ok_basic"}
        outs  == Append(call.outcomes, IF got.requests = 0 THEN "no_request"
                                       ELSE IF failed THEN answer ELSE "accepted")
    IN
    /\ IF first THEN llm.pc \in {"idle", "done"}
       ELSE llm.pc = "retry" /\ llm.impl = "openrouter"
    /\ IF got.doc.len > 0
       THEN llm' = [call EXCEPT !.pc = "done", !.requestsSent = sent,
                                !.outcomes = outs,
                                !.result = Returned(got.doc, retry_count + 1,
                                                    "openrouter")]
       ELSE \* "if documentation:" failed: sleep 2 * (retry_count + 1), count
            IF retry_count + 1 < max_retries
            THEN llm' = [call EXCEPT !.pc = "retry", !.requestsSent = sent,
                                     !.outcomes = outs,
                                     !.waits = Append(@, 2 * (retry_count + 1)),
                                     !.attempt = @ + 1]
            ELSE llm' = [call EXCEPT !.pc = "done", !.requestsSent = sent,
                                     !.outcomes = outs,
                                     !.waits = Append(@, 2 * (retry_count + 1)),
                                     !.attempt = @ + 1,
                                     !.result = Returned(
                                         Doc("template", 1000, 8, 0, 1, FALSE),
                                         0, "openrouter")]
    /\ UNCHANGED <<dbVars, authVars, exportVars, astVars, concVars>>

\* codebase_analyzer.parse_codebase when the file cannot be opened or read
\* (codebase_analyzer.py:12-14, 20-22): the error document with the generator
\* "error", without any call to the LLM.
parse_codebase_unreadable ==
    /\ llm.pc \in {"idle", "done"}
    /\ llm' = [NoCall EXCEPT !.pc = "done", !.impl = "parse_codebase",
                             !.result = Returned(Doc("error_document", 100, 1, 0, 0, FALSE),
                                                 0, "error")]
    /\ UNCHANGED <<dbVars, authVars, exportVars, astVars, concVars>>

\* The generator codebase_analyzer.parse_codebase returns beside the document
\* (codebase_analyzer.py:16-22): "AI-Enhanced" if success else "Fallback",
\* where success is the flag generate_documentation returned.
parse_codebase_generator(result) ==
    IF result.flag = "error" THEN "error"
    ELSE IF result.flag = "True" THEN "AI-Enhanced" ELSE "Fallback"

\* ai_generated as the upload views derive it (core/views.py:208).
ai_generated(generator) == generator \in {"AI-Enhanced", "AI-Generated", "ollama"}

LlmInit == llm = NoCall

\* The steps of a call that is under way.
LlmRun ==
    \/ \E outcome \in {"score_ok", "score_low", "exception"} :
          generate_documentation_quality_system(outcome)
    \/ \E answer \in OllamaAnswers :
          generate_documentation_attempt(answer)
    \/ generate_documentation_fallback

LlmNext ==
    \/ \E q \in BOOLEAN : generate_documentation_begin(q)
    \/ LlmRun
    \/ parse_codebase_unreadable
    \/ \E first \in BOOLEAN, code_empty \in BOOLEAN, api_key_valid \in BOOLEAN,
          answer \in OpenRouterAnswers :
          generate_documentation_with_retry(first, code_empty, api_key_valid, answer)

LlmSpecInit == DbIdle /\ AuthIdle /\ LlmInit /\ ExportIdle /\ AstIdle /\ ConcIdle

\* Each step of a call is straight-line code around one request with a finite
\* timeout (config["timeout"]) and a time.sleep(2), so a call under way always
\* takes its next step.
LlmSpec == LlmSpecInit /\ [][LlmNext]_vars /\ WF_vars(LlmRun)

\* The outcomes of an attempt that count as a failure of the LLM.
FailedOutcomes ==
    {"timeout", "exception", "http_error", "empty", "rejected", "ok_invalid",
     "request_exception", "json_error"}

AllAttemptsFailed ==
    /\ llm.pc = "done"
    /\ llm.outcomes # <<>>
    /\ \A i \in 1..Len(llm.outcomes) : llm.outcomes[i] \in FailedOutcomes

\* C3: a call never ends in an exception, a finished call has returned a
\* non-empty document, and when every attempt to obtain documentation from
\* the LLM failed (HTTP error, timeout, exception, empty or rejected response)
\* the document returned is the fallback/template documentation.
C3_FallbackWhenAllAttemptsFail ==
    /\ llm.result.kind # "raised"
    /\ llm.pc = "done" => (llm.result.kind = "returned" /\ llm.result.doc.len > 0)
    /\ AllAttemptsFailed => llm.result.doc.source \in {"fallback", "template"}

\* C3 witness: the three attempts of generate_documentation failed in three
\* different ways and the call returned the fallback documentation.
C3_Witness ==
    /\ AllAttemptsFailed /\ llm.impl = "ollama"
    /\ llm.outcomes = <<"timeout", "rejected", "http_error">>
    /\ llm.result.kind = "returned" /\ llm.result.doc.source = "fallback"

\* C4: a call sends at most 3 requests to the LLM provider, none after the
\* third failed or rejected attempt, and a call under way terminates.
C4_AtMostThreeAttemptsAndTerminates ==
    /\ [](llm.requestsSent <= 3)
    /\ [](Len(llm.outcomes) >= 3 => llm.pc \in {"fallback", "done"})
    /\ (llm.pc \notin {"idle", "done"}) ~> (llm.pc = "done")

\* C4 witness: a call finished after a third request whose response was
\* rejected.
C4_Witness ==
    /\ llm.pc = "done" /\ llm.requestsSent = 3
    /\ Len(llm.outcomes) = 3 /\ llm.outcomes[3] = "rejected"

\* C5: exponential backoff: each wait before a retry is a constant multiple
\* greater than one of the wait before the previous retry.
C5_ExponentialBackoff ==
    /\ \A i \in 2..Len(llm.waits) : llm.waits[i] > llm.waits[i - 1]
    /\ \A i \in 3..Len(llm.waits) :
          llm.waits[i] * llm.waits[i - 2] = llm.waits[i - 1] * llm.waits[i - 1]

\* C6: the text of an LLM response is what generate_documentation returns only
\* if it scored at least 90, 80 or 70 points in attempt 1, 2 or 3, the attempt
\* that produced it; a response rejected in an attempt is not what that
\* attempt returns.
C6_ReturnedResponsePassedItsCheck ==
    (llm.impl = "ollama" /\ llm.result.kind = "returned"
        /\ llm.result.doc.source = "llm") =>
        /\ llm.result.attempt \in 1..3
        /\ total_quality_score(llm.result.doc)
              >= <<9000, 8000, 7000>>[llm.result.attempt]
        /\ <<llm.result.attempt, llm.result.doc>> \notin llm.rejected
        /\ \A r \in llm.rejected :
              total_quality_score(r[2]) < <<9000, 8000, 7000>>[r[1]]

\* C6 witness: the second attempt returned a response that scores under 90
\* after the first attempt's response was rejected.
C6_Witness ==
    /\ llm.impl = "ollama" /\ llm.pc = "done" /\ llm.result.doc.source = "llm"
    /\ llm.result.attempt = 2 /\ llm.rejected # {}
    /\ total_quality_score(llm.result.doc) < 9000

\* C13: parse_codebase returns a (documentation, generator) pair for every
\* input path, and a document produced by the fallback path is never labelled
\* as AI-generated.
C13_GeneratorLabelIsTruthful ==
    (llm.pc = "done" /\ llm.impl \in {"ollama", "parse_codebase"}) =>
        /\ llm.result.kind = "returned"
        /\ parse_codebase_generator(llm.result) \in {"AI-Enhanced", "Fallback", "error"}
        /\ llm.result.doc.source \in {"fallback", "error_document"} =>
              ~ai_generated(parse_codebase_generator(llm.result))

(***************************************************************************)
(*   core/utils/document_export.py DocumentExporter.create_temporary_file  *)
(*   and core/views.py ExportDocsView                                      *)
(***************************************************************************)

\* Bound: the number of files the model keeps under media/.
MaxFiles == 2

\* A file under media/: its directory, the stem and suffix of its name, and
\* the kind of content written to it.
File(dir, stem, ext, kind) == [dir |-> dir, stem |-> stem, ext |-> ext, kind |-> kind]

\* The stem of a name: "{filename}_{timestamp}" and what a rename appended.
Stem(filename, timestamp, tail) ==
    [filename |-> filename, timestamp |-> timestamp, tail |-> tail]

NoFile == File("", Stem("", 0, ""), "", "none")

\* request.data['format'] values; NoVal is a request without the field.
RequestedFormats == {"pdf", "PDF", "html", "md", "txt", "docx", "rtf", NoVal}

\* core/views.py:642
supported_formats == {"pdf", "html", "md", "txt", "docx"}

ExportFilenames == {"documentation"}
Timestamps      == {1, 2}

\* How the reportlab branch can end (document_export.py:662-789): the PDF is
\* built, the import fails, or building raises.
PdfOutcomes == {"built", "import_error", "exception"}

\* DocumentExporter._generate_professional_html and _generate_html_toc
\* (document_export.py:617-620) are called but defined nowhere in the
\* repository's source: the html branch either has them and writes the page,
\* or raises AttributeError.
HtmlOutcomes == {"written", "attribute_error"}

\* DocumentationGenerator.analyze_and_export (core/views.py:682), defined
\* nowhere in the source: it writes an HTML file to the export directory or
\* raises.
FallbackOutcomes == {"written", "exception"}

docx_path_unchanged(temp_path) == temp_path

\* temp_path.replace('.docx', '.rtf') (document_export.py:654), on a path whose
\* directory and stem do not contain ".docx".
docx_path(temp_path) ==
    IF temp_path.ext = "docx" THEN [temp_path EXCEPT !.ext = "rtf"] ELSE temp_path

\* temp_path.replace('.pdf', '_printable.html') (document_export.py:756, 786).
printable_html_path(temp_path) ==
    IF temp_path.ext = "pdf"
    THEN [temp_path EXCEPT !.stem.tail = "_printable", !.ext = "html"]
    ELSE temp_path

\* DocumentExporter.create_temporary_file (document_export.py:589-793): the
\* file it writes, or "raised".
create_temporary_file(export_format, filename, pdf_outcome, html_outcome) ==
    LET temp_path == File("media/temp", filename, export_format, "none") IN
    IF export_format = "html"
    THEN IF html_outcome = "written"
         THEN [raised |-> FALSE, file |-> [temp_path EXCEPT !.kind = "html"]]
         ELSE [raised |-> TRUE, file |-> NoFile]
    ELSE IF export_format = "txt"
    THEN [raised |-> FALSE, file |-> [temp_path EXCEPT !.kind = "text"]]
    ELSE IF export_format = "md"
    THEN [raised |-> FALSE, file |-> [temp_path EXCEPT !.kind = "markdown"]]
    ELSE IF export_format = "docx"
    THEN [raised |-> FALSE, file |-> [docx_path(temp_path) EXCEPT !.kind = "rtf"]]
    ELSE IF export_format = "pdf"
    THEN IF pdf_outcome = "built"
         THEN [raised |-> FALSE, file |-> [temp_path EXCEPT !.kind = "pdf"]]
         ELSE [raised |-> FALSE,
               file |-> [printable_html_path(temp_path) EXCEPT !.kind = "html"]]
    ELSE \* "Default to markdown": the content as it is, under the given suffix
         [raised |-> FALSE, file |-> [temp_path EXCEPT !.kind = "markdown"]]

NoExportResp(view) ==
    [view |-> view, code |-> 0, status |-> "none", file |-> NoFile]

ExportResponse(view, code, status, file) ==
    [view |-> view, code |-> code, status |-> status, file |-> file]

\* open(path, 'w'): the file replaces one of the same path.
WriteFile(files, f) ==
    {g \in files : <<g.dir, g.stem, g.ext>> # <<f.dir, f.stem, f.ext>>} \cup {f}

\* ExportDocsView.post (core/views.py:627-713): the whole handler.
\* env holds how the pdf branch, the html branch and the view's PDF fallback end.
ExportDocsView_post_body(doc_content, format, filename, timestamp, env) ==
    LET pdf_outcome == env.pdf
        html_outcome == env.html
        fallback_outcome == env.fallback
        export_format == Lower(IF format = NoVal THEN "pdf" ELSE format)
        made == create_temporary_file(export_format, Stem(filename, timestamp, ""),
                                      pdf_outcome, html_outcome)
        fallback_file == File("media/exports", Stem(filename, timestamp, ""),
                              "html", "html")
    IN
    IF doc_content = ""
    THEN [resp |-> ExportResponse("export", 400, "error", NoFile), files |-> mediaFiles]
    ELSE IF export_format \notin supported_formats
    THEN [resp |-> ExportResponse("export", 400, "error", NoFile), files |-> mediaFiles]
    ELSE IF ~made.raised
    THEN [resp |-> ExportResponse("export", 200, "success", made.file),
          files |-> WriteFile(mediaFiles, made.file)]
    ELSE IF export_format = "pdf" /\ fallback_outcome = "written"
    THEN [resp |-> ExportResponse("export", 200, "warning", fallback_file),
          files |-> WriteFile(mediaFiles, fallback_file)]
    ELSE [resp |-> ExportResponse("export", 500, "error", NoFile), files |-> mediaFiles]

ExportDocsView_post(doc_content, format, filename, timestamp, env) ==
    LET out == ExportDocsView_post_body(doc_content, format, filename, timestamp, env)
    IN
    /\ Cardinality(out.files) <= MaxFiles
    /\ exportReq' = [view |-> "export", doc_content |-> doc_content,
                     format |-> format, filename |-> filename,
                     timestamp |-> timestamp, pdf_outcome |-> env.pdf]
    /\ exportResp' = out.resp
    /\ mediaFiles' = out.files
    /\ UNCHANGED <<dbVars, authVars, llmVars, astVars, concVars>>

ExportInit ==
    /\ mediaFiles = {}
    /\ exportReq = [view |-> "none", doc_content |-> "", format |-> NoVal,
                    filename |-> "", timestamp |-> 0, pdf_outcome |-> "built"]
    /\ exportResp = NoExportResp("none")

\* The outcomes of a branch are drawn for the requests that reach the branch.
ExportNext ==
    \E doc_content \in {"", "# Title"}, format \in RequestedFormats,
       filename \in ExportFilenames, timestamp \in Timestamps :
       \E pdf_outcome \in IF format \in {"pdf", "PDF", NoVal}
                           THEN PdfOutcomes ELSE {"built"},
          html_outcome \in IF format = "html" THEN HtmlOutcomes ELSE {"written"},
          fallback_outcome \in IF format \in {"pdf", "PDF", NoVal}
                                THEN FallbackOutcomes ELSE {"written"} :
          ExportDocsView_post(doc_content, format, filename, timestamp,
                              [pdf |-> pdf_outcome, html |-> html_outcome,
                               fallback |-> fallback_outcome])

ExportSpecInit == DbIdle /\ AuthIdle /\ LlmIdle /\ ExportInit /\ AstIdle /\ ConcIdle

ExportSpec == ExportSpecInit /\ [][ExportNext]_vars

\* The format the request asked for, as the view reads it.
RequestedFormat == Lower(IF exportReq.format = NoVal THEN "pdf" ELSE exportReq.format)

\* The kind of content a file of a format holds.
FormatKind(format) ==
    CASE format = "pdf"  -> "pdf"
      [] format = "html" -> "html"
      [] format = "md"   -> "markdown"
      [] format = "txt"  -> "text"
      [] format = "docx" -> "docx"
      [] format = "rtf"  -> "rtf"
      [] OTHER -> "none"

SuccessfulExport == exportReq.view = "export" /\ exportResp.status = "success"

MaxStatements == 2

\* An AST node: its class, its name (the target for an Assign, the module for
\* an Import) and the statements of its body.
Node(type, name, body) == [type |-> type, name |-> name, body |-> body]

\* The statements the model nests inside a function or class.
NestedStatements ==
    {Node(t, "m", <<>>) : t \in {"FunctionDef", "ClassDef"}}
    \cup {Node("Assign", "x", <<>>)}

\* The statements of a module body.
TopLevelStatements ==
    {Node(t, "f", b) : t \in {"FunctionDef", "AsyncFunctionDef", "ClassDef"},
                       b \in {<<>>} \cup {<<n>> : n \in NestedStatements}}
    \cup {Node("Import", "os", <<>>), Node("Assign", "x", <<>>)}

\* ast.parse of a syntactically valid source.
Modules ==
    {Node("Module", "", b) :
        b \in UNION {[1..n -> TopLevelStatements] : n \in 0..MaxStatements}}

\* A heading of a generated document: its level (the number of #), what it
\* announces, the name in it, and the path in the tree of the node it was
\* written for (<<>> for a heading written for no definition).
Section(level, title, name, path) ==
    [level |-> level, title |-> title, name |-> name, path |-> path]

RECURSIVE SeqFlatten(_)
SeqFlatten(ss) == IF ss = <<>> THEN <<>> ELSE Head(ss) \o SeqFlatten(Tail(ss))

\* The members of a sequence of nodes that are instances of a class, in order.
RECURSIVE InstancesOf(_, _)
InstancesOf(items, type) ==
    IF items = <<>> THEN <<>>
    ELSE (IF Head(items).node.type = type THEN <<Head(items)>> ELSE <<>>)
         \o InstancesOf(Tail(items), type)

\* ast.iter_child_nodes(node), each child with its path.
iter_child_nodes(e) ==
    [i \in 1..Len(e.node.body) |->
        [node |-> e.node.body[i], path |-> Append(e.path, i)]]

\* ast.walk(tree): the nodes breadth-first, the tree itself first.
RECURSIVE walk_queue(_)
walk_queue(todo) ==
    IF todo = <<>> THEN <<>>
    ELSE <<Head(todo)>> \o walk_queue(Tail(todo) \o iter_child_nodes(Head(todo)))

walk(tree) == walk_queue(<<[node |-> tree, path |-> <<>>]>>)

\* backend/core/utils/code_parser.py:3-17 parse_codebase.
backend_parse_codebase(tree) ==
    LET nodes == walk(tree)
        section(e) ==
            IF e.node.type = "FunctionDef"
            THEN <<Section(2, "Function", e.node.name, e.path)>>
            ELSE IF e.node.type = "ClassDef"
            THEN <<Section(2, "Class", e.node.name, e.path)>>
            ELSE <<>>
    IN <<Section(1, "Documentation", "", <<>>)>>
       \o SeqFlatten([i \in 1..Len(nodes) |-> section(nodes[i])])

\* core/utils/code_parser.py:109-179 _generate_markdown_doc, on the classes,
\* functions and imports that parse_codebase (lines 24-37) and
\* _extract_class_info (lines 48-70) collected.
generate_markdown_doc(tree) ==
    LET top      == iter_child_nodes([node |-> tree, path |-> <<>>])
        classes   == InstancesOf(top, "ClassDef")
        functions == InstancesOf(top, "FunctionDef")
        imports   == InstancesOf(top, "Import")
        class_sections(e) ==
            LET items      == iter_child_nodes(e)
                methods    == InstancesOf(items, "FunctionDef")
                attributes == InstancesOf(items, "Assign")
            IN <<Section(3, "Class", e.node.name, e.path)>>
               \o (IF attributes = <<>> THEN <<>>
                   ELSE <<Section(4, "Attributes", "", <<>>)>>)
               \o (IF methods = <<>> THEN <<>>
                   ELSE <<Section(4, "Methods", "", <<>>)>>
                        \o [k \in 1..Len(methods) |->
                              Section(5, "Method", methods[k].node.name,
                                      methods[k].path)])
    IN <<Section(1, "Documentation", "", <<>>), Section(2, "Overview", "", <<>>)>>
       \o (IF imports = <<>> THEN <<>> ELSE <<Section(2, "Dependencies", "", <<>>)>>)
       \o (IF classes = <<>> THEN <<>>
           ELSE <<Section(2, "Classes", "", <<>>)>>
                \o SeqFlatten([k \in 1..Len(classes) |-> class_sections(classes[k])]))
       \o (IF functions = <<>> THEN <<>>
           ELSE <<Section(2, "Functions", "", <<>>)>>
                \o [k \in 1..Len(functions) |->
                      Section(3, "Function", functions[k].node.name,
                              functions[k].path)])

\* core/utils/code_parser.py:6-46 parse_codebase applied to the module.
core_parse_codebase ==
    /\ ~ast.core_parsed
    /\ ast' = [ast EXCEPT !.core_parsed = TRUE,
                          !.core_doc = generate_markdown_doc(ast.tree)]
    /\ UNCHANGED <<dbVars, authVars, llmVars, exportVars, concVars>>

\* backend/core/utils/code_parser.py parse_codebase applied to the module.
backend_core_parse_codebase ==
    /\ ~ast.backend_parsed
    /\ ast' = [ast EXCEPT !.backend_parsed = TRUE,
                          !.backend_doc = backend_parse_codebase(ast.tree)]
    /\ UNCHANGED <<dbVars, authVars, llmVars, exportVars, concVars>>

AstInit ==
    \E tree \in Modules :
        ast = [pc |-> "parsed", tree |-> tree,
               core_parsed |-> FALSE, core_doc |-> <<>>,
               backend_parsed |-> FALSE, backend_doc |-> <<>>]

AstNext == core_parse_codebase \/ backend_core_parse_codebase

AstSpecInit == DbIdle /\ AuthIdle /\ LlmIdle /\ ExportIdle /\ AstInit /\ ConcIdle

AstSpec == AstSpecInit /\ [][AstNext]_vars

\* The paths of the top-level function and class definitions of a module.
TopLevelDefinitions(tree) ==
    {<<i>> : i \in {j \in 1..Len(tree.body) :
                      tree.body[j].type \in {"FunctionDef", "AsyncFunctionDef",
                                             "ClassDef"}}}

\* The sections of a document that stand for a definition, at the heading
\* level the document gives to definitions.
DefinitionSections(doc, level) ==
    {i \in 1..Len(doc) : doc[i].level = level
                         /\ doc[i].title \in {"Function", "Class"}}

OneSectionPerTopLevelDefinition(tree, doc, level) ==
    /\ \A p \in TopLevelDefinitions(tree) :
          Cardinality({i \in DefinitionSections(doc, level) : doc[i].path = p}) = 1
    /\ \A i \in DefinitionSections(doc, level) :
          /\ doc[i].path \in TopLevelDefinitions(tree)
          /\ doc[i].name = tree.body[doc[i].path[1]].name

\* C9: the AST-derived documentation of a valid Python module has exactly one
\* section for every top-level function or class definition and no section of
\* that level for a nested definition.
C9_OneSectionPerTopLevelDefinition ==
    /\ ast.core_parsed =>
          OneSectionPerTopLevelDefinition(ast.tree, ast.core_doc, 3)
    /\ ast.backend_parsed =>
          OneSectionPerTopLevelDefinition(ast.tree, ast.backend_doc, 2)

(***************************************************************************)
(*   core/views.py GenerateDocsView.post and UploadCodeView.post handled   *)
(*   by concurrent handlers that share the working directory               *)
(***************************************************************************)

\* The handlers (threads or worker processes) of the server.
Handlers == {1, 2}

ConcFilenames == {"a.py", "b.py"}
CodeContents  == {"", "A", "B"}

\* What a file holds: code a request sent, or a document generated from code.
Content(kind, of) == [kind |-> kind, of |-> of]

NoContent == Content("none", "")

\* f'temp_{filename}' (core/views.py:385), f'media/{uploaded_file.name}'
\* (line 199) and f'docs_output/{uploaded_file.name}_doc.md' (line 206).
TempPath(filename)  == [dir |-> ".",           name |-> <<"temp_", filename, "">>]
SavePath(filename)  == [dir |-> "media",       name |-> <<"", filename, "">>]
DocPath(filename)   == [dir |-> "docs_output", name |-> <<"", filename, "_doc.md">>]

\* open(path, 'w').write(content)
WriteDisk(files, path, content) ==
    [q \in DOMAIN files \cup {path} |-> IF q = path THEN content ELSE files[q]]

\* os.remove(path) when os.path.exists(path)
RemoveDisk(files, path) == [q \in DOMAIN files \ {path} |-> files[q]]

\* codebase_analyzer.parse_codebase(filepath) (codebase_analyzer.py:11-22):
\* documentation of the content the file holds when it is read, or the error
\* document when the file cannot be opened.
parse_codebase(files, path) ==
    IF path \in DOMAIN files
    THEN Content("documentation", files[path].of)
    ELSE Content("error_document", "")

IdleHandler ==
    [view |-> "none", pc |-> "idle", filename |-> "", code_content |-> "",
     documentation |-> NoContent, status |-> "none", code |-> 0]

\* GenerateDocsView.post up to the writing of the temporary file
\* (core/views.py:374-387).
GenerateDocsView_post_write(h, filename, code_content) ==
    /\ inflight[h].pc \in {"idle", "done"}
    /\ IF code_content = ""
       THEN /\ inflight' = [inflight EXCEPT ![h] =
                   [IdleHandler EXCEPT !.view = "generate", !.pc = "done",
                                       !.filename = filename, !.status = "error",
                                       !.code = 400]]
            /\ disk' = disk
       ELSE /\ inflight' = [inflight EXCEPT ![h] =
                   [IdleHandler EXCEPT !.view = "generate", !.pc = "written",
                                       !.filename = filename,
                                       !.code_content = code_content]]
            /\ disk' = WriteDisk(disk, TempPath(filename),
                                 Content("code", code_content))
    /\ UNCHANGED <<dbVars, authVars, llmVars, exportVars, astVars>>

\* doc_content, generator = parse_codebase(temp_file_path) (core/views.py:391).
GenerateDocsView_post_parse(h) ==
    /\ inflight[h].view = "generate" /\ inflight[h].pc = "written"
    /\ inflight' = [inflight EXCEPT
          ![h].documentation = parse_codebase(disk, TempPath(inflight[h].filename)),
          ![h].pc = "parsed"]
    /\ disk' = disk
    /\ UNCHANGED <<dbVars, authVars, llmVars, exportVars, astVars>>

\* The clean-up and the response (core/views.py:393-402).
GenerateDocsView_post_respond(h) ==
    /\ inflight[h].view = "generate" /\ inflight[h].pc = "parsed"
    /\ disk' = RemoveDisk(disk, TempPath(inflight[h].filename))
    /\ inflight' = [inflight EXCEPT ![h].pc = "done", ![h].status = "success",
                                    ![h].code = 200]
    /\ UNCHANGED <<dbVars, authVars, llmVars, exportVars, astVars>>

\* UploadCodeView.post up to the writing of media/{name} (core/views.py:164-203),
\* for a supported file within the size limit.
UploadCodeView_post_save(h, filename, code_content) ==
    /\ inflight[h].pc \in {"idle", "done"}
    /\ code_content # ""
    /\ inflight' = [inflight EXCEPT ![h] =
          [IdleHandler EXCEPT !.view = "upload", !.pc = "written",
                              !.filename = filename, !.code_content = code_content]]
    /\ disk' = WriteDisk(disk, SavePath(filename), Content("code", code_content))
    /\ UNCHANGED <<dbVars, authVars, llmVars, exportVars, astVars>>

\* doc_content, generator = parse_codebase(save_path) (core/views.py:205).
UploadCodeView_post_parse(h) ==
    /\ inflight[h].view = "upload" /\ inflight[h].pc = "written"
    /\ inflight' = [inflight EXCEPT
          ![h].documentation = parse_codebase(disk, SavePath(inflight[h].filename)),
          ![h].pc = "parsed"]
    /\ disk' = disk
    /\ UNCHANGED <<dbVars, authVars, llmVars, exportVars, astVars>>

\* The writing of docs_output/{name}_doc.md, the Documentation row holding
\* doc_content, and the response (core/views.py:206-232).
UploadCodeView_post_store(h) ==
    /\ inflight[h].view = "upload" /\ inflight[h].pc = "parsed"
    /\ disk' = WriteDisk(disk, DocPath(inflight[h].filename),
                         inflight[h].documentation)
    /\ inflight' = [inflight EXCEPT ![h].pc = "done", ![h].status = "success",
                                    ![h].code = 200]
    /\ UNCHANGED <<dbVars, authVars, llmVars, exportVars, astVars>>

ConcInit ==
    /\ inflight = [h \in Handlers |-> IdleHandler]
    /\ disk = <<>>

ConcNext ==
    \E h \in Handlers :
        \/ \E filename \in ConcFilenames, code_content \in CodeContents :
              GenerateDocsView_post_write(h, filename, code_content)
        \/ GenerateDocsView_post_parse(h)
        \/ GenerateDocsView_post_respond(h)
        \/ \E filename \in ConcFilenames, code_content \in CodeContents :
              UploadCodeView_post_save(h, filename, code_content)
        \/ UploadCodeView_post_parse(h)
        \/ UploadCodeView_post_store(h)

ConcSpecInit == DbIdle /\ AuthIdle /\ LlmIdle /\ ExportIdle /\ AstIdle /\ ConcInit

ConcSpec == ConcSpecInit /\ [][ConcNext]_vars

\* C12: the outcome of a request is what it is when the request is handled
\* alone, whatever other handlers do meanwhile: a request answered with
\* success carries the documentation of the code that request sent.
C12_OutcomeIndependentOfConcurrentRequests ==
    \A h \in Handlers :
        (inflight[h].pc = "done" /\ inflight[h].status = "success") =>
            inflight[h].documentation
                = Content("documentation", inflight[h].code_content)


(***************************************************************************)
(*   authentication/two_factor_auth.py TwoFactorVerifyView and             *)
(*   authentication/google_auth.py GoogleCallbackView                      *)
(***************************************************************************)

\* The accounts of a deployment in use: two users registered through register.
RegisteredUsers ==
    { [id |-> 1, username |-> "u1", email |-> "e1", password |-> "p1", salt |-> 0],
      [id |-> 2, username |-> "u2", email |-> "e2", password |-> "p2", salt |-> 0] }

\* The backup codes _generate_backup_codes can have stored: setup k of a user
\* stores codes of its own, written <<secret, 1>> for the setup that drew secret.
BackupCodes == {<<s, 1>> : s \in Secrets}
\* A request without a backup_code.
NoBackupCode == <<NoVal, 0>>

\* user_id values a verify request carries: the registered ids, an id of no
\* user, and an absent one.
VerifyUserIds == {1, 2, 3, NoId}

UserById(user_id) == CHOOSE u \in users : u.id = user_id

\* TwoFactorVerifyView.post line 106-107: the early 400.
TwoFactorVerifyView_incomplete(user_id, code, backup_code) ==
    user_id = NoId \/ (code = NoVal /\ backup_code = NoBackupCode)

\* TwoFactorVerifyView.post line 110-111: User.objects.get(id=user_id) and
\* TwoFactorAuth.objects.get(user=user, is_enabled=True) raise DoesNotExist.
TwoFactorVerifyView_not_found(user_id) ==
    \/ \A u \in users : u.id # user_id
    \/ ~twoFactor[user_id].is_enabled

\* TwoFactorVerifyView.post line 113-149 on the row two_factor it loaded:
\* the code check, the removal of a used backup code with save(), which
\* writes every field of the loaded row, and the tokens.
TwoFactorVerifyView_finish(user_id, two_factor, code, backup_code) ==
    IF code # NoVal
    THEN /\ UNCHANGED <<twoFactor, usedBackupCodes>>
         /\ IF two_factor.secret_key = NoVal
            THEN /\ authResp' = AuthRaised("2fa_verify", "TOTP(None)")
                 /\ UNCHANGED passwordStepDone
            ELSE IF code # two_factor.secret_key
            THEN /\ authResp' = AuthResponse("2fa_verify", 400, "invalid_code")
                 /\ UNCHANGED passwordStepDone
            ELSE /\ authResp' = TokenResponse("2fa_verify", UserById(user_id))
                 /\ passwordStepDone' = passwordStepDone \ {user_id}
    ELSE IF backup_code \notin two_factor.backup_codes
    THEN /\ authResp' = AuthResponse("2fa_verify", 400, "invalid_backup_code")
         /\ UNCHANGED <<twoFactor, passwordStepDone, usedBackupCodes>>
    ELSE /\ twoFactor' = [twoFactor EXCEPT ![user_id] =
                             [two_factor EXCEPT !.backup_codes = @ \ {backup_code}]]
         /\ usedBackupCodes' = usedBackupCodes \cup {<<user_id, backup_code>>}
         /\ authResp' = TokenResponse("2fa_verify", UserById(user_id))
         /\ passwordStepDone' = passwordStepDone \ {user_id}

\* TwoFactorVerifyView.post (two_factor_auth.py:97-149): the whole handler,
\* handled with no other request in between.
TwoFactorVerifyView_post(user_id, code, backup_code) ==
    /\ authReq' = [view |-> "2fa_verify", user_id |-> user_id, code |-> code,
                   backup_code |-> backup_code]
    /\ IF TwoFactorVerifyView_incomplete(user_id, code, backup_code)
       THEN /\ authResp' = AuthResponse("2fa_verify", 400, "code_required")
            /\ UNCHANGED <<twoFactor, passwordStepDone, usedBackupCodes>>
       ELSE IF TwoFactorVerifyView_not_found(user_id)
       THEN /\ authResp' = AuthResponse("2fa_verify", 400, "not_enabled")
            /\ UNCHANGED <<twoFactor, passwordStepDone, usedBackupCodes>>
       ELSE TwoFactorVerifyView_finish(user_id, twoFactor[user_id], code, backup_code)
    /\ UNCHANGED users
    /\ UNCHANGED <<dbVars, llmVars, exportVars, astVars, concVars>>

\* What Google answers to the callback: no code in the request, a refused
\* token exchange, a refused userinfo request, or the userinfo of an account.
GoogleEmails   == Emails \cup {"e3"}
GoogleFailures == {"no_code", "token_failed", "userinfo_failed"}

\* GoogleCallbackView.get (google_auth.py:40-146): the whole handler.  A new
\* user gets the local part of the email as username, written as the email,
\* an unusable password, and the TwoFactorAuth row the post_save signal makes.
GoogleCallbackView_get(google) ==
    LET found == {u \in users : u.email = google}
        id    == Cardinality(users) + 1
        user  == [id |-> id, username |-> google, email |-> google,
                  password |-> NoVal, salt |-> 0]
    IN
    /\ authReq' = [view |-> "google_callback", google |-> google]
    /\ IF google \in GoogleFailures
       THEN /\ authResp' = AuthResponse("google_callback", 400, google)
            /\ UNCHANGED <<users, twoFactor, passwordStepDone>>
       ELSE IF Cardinality(found) > 1
       THEN /\ authResp' = AuthRaised("google_callback", "MultipleObjectsReturned")
            /\ UNCHANGED <<users, twoFactor, passwordStepDone>>
       ELSE IF found # {}
       THEN /\ authResp' = TokenResponse("google_callback", CHOOSE u \in found : TRUE)
            /\ passwordStepDone' = passwordStepDone \ {authResp'.access}
            /\ UNCHANGED <<users, twoFactor>>
       ELSE /\ users' = users \cup {user}
            /\ twoFactor' = twoFactor @@ (id :> NewTwoFactor)
            /\ authResp' = TokenResponse("google_callback", user)
            /\ UNCHANGED passwordStepDone
    /\ UNCHANGED usedBackupCodes
    /\ UNCHANGED <<dbVars, llmVars, exportVars, astVars, concVars>>

TwoFactorInit ==
    /\ users = RegisteredUsers
    /\ twoFactor = [id \in {u.id : u \in RegisteredUsers} |-> NewTwoFactor]
    /\ authReq = [view |-> "none"] /\ authResp = NoAuthResp("none")
    /\ passwordStepDone = {} /\ usedBackupCodes = {}

TwoFactorNext ==
    \/ \E e \in Emails, pw \in Passwords, fault \in LoginFaults :
          login_view(e, NoVal, pw, fault)
    \/ \E force \in BOOLEAN, secret \in Secrets :
          TwoFactorSetupView_get(1, force, secret)
    \/ \E code \in Secrets : TwoFactorSetupView_post(1, code)
    \/ TwoFactorDisableView_post(1)
    \/ \E user_id \in VerifyUserIds, code \in Secrets \cup {NoVal},
          backup_code \in BackupCodes \cup {NoBackupCode} :
          TwoFactorVerifyView_post(user_id, code, backup_code)
    \/ \E google \in GoogleFailures \cup GoogleEmails : GoogleCallbackView_get(google)

TwoFactorSpecInit ==
    DbIdle /\ TwoFactorInit /\ LlmIdle /\ ExportIdle /\ AstIdle /\ ConcIdle

TwoFactorSpec == TwoFactorSpecInit /\ [][TwoFactorNext]_vars

\* C14: a login_view request with the correct password of a user whose
\* TwoFactorAuth record is enabled gets no access and no refresh token: it is
\* answered with two_factor_required and the user's id.
C14_TwoFactorUserGetsNoTokensFromLogin ==
    authReq.view = "login" =>
        \A u \in users :
            ( /\ u.email = authReq.email
              /\ u.password = authReq.password
              /\ twoFactor[u.id].is_enabled )
            => /\ authResp.access = NoId /\ authResp.refresh = NoId
               /\ authResp.two_factor_required
               /\ authResp.user_id = u.id

\* C15: TwoFactorVerifyView issues tokens for a user only if a login_view
\* request with that user's correct password succeeded earlier in the same
\* login attempt.
C15_VerifyTokensOnlyAfterPasswordStep ==
    [][ (authReq'.view = "2fa_verify" /\ authResp'.access # NoId)
            => authResp'.access \in passwordStepDone ]_vars

\* C16: no endpoint issues tokens for a user whose TwoFactorAuth record is
\* enabled unless the request presented a valid TOTP code for that user or one
\* of the user's unused backup codes; this includes the Google OAuth callback.
C16_NoTokensWithoutSecondFactor ==
    [][ \A u \in DOMAIN twoFactor :
            (authResp'.access = u /\ twoFactor[u].is_enabled)
            => /\ authReq'.view = "2fa_verify"
               /\ authReq'.user_id = u
               /\ \/ authReq'.code = twoFactor[u].secret_key
                  \/ authReq'.backup_code \in twoFactor[u].backup_codes ]_vars

\* C18: a TwoFactorAuth record is enabled only while its stored secret_key is
\* one for which the user has submitted a valid TOTP code: a record is enabled
\* after a step only if it was enabled with the same secret before it, or the
\* step is the user's TwoFactorSetupView.post with the code of the stored secret.
C18_EnabledOnlyWithVerifiedSecret ==
    [][ \A u \in DOMAIN twoFactor :
            twoFactor'[u].is_enabled
            => \/ /\ twoFactor[u].is_enabled
                  /\ twoFactor'[u].secret_key = twoFactor[u].secret_key
               \/ /\ authReq'.view = "2fa_setup_post"
                  /\ authReq'.user = u
                  /\ authReq'.code = twoFactor'[u].secret_key ]_vars

(***************************************************************************)
(*   TwoFactorVerifyView.post handled by concurrent workers: the view      *)
(*   takes no lock and opens no transaction between loading the            *)
(*   TwoFactorAuth row (line 111) and saving it (line 124)                 *)
(***************************************************************************)

\* A worker that handles no verify request.
NoVerify == [pc |-> "idle"]

\* TwoFactorVerifyView.post line 102-111 in worker h: the request is read and
\* the row loaded; a request refused here is answered at once.
TwoFactorVerifyView_post_load(h, user_id, code, backup_code) ==
    /\ inflight[h].pc = "idle"
    /\ IF TwoFactorVerifyView_incomplete(user_id, code, backup_code)
       THEN /\ authReq' = [view |-> "2fa_verify", user_id |-> user_id,
                           code |-> code, backup_code |-> backup_code]
            /\ authResp' = AuthResponse("2fa_verify", 400, "code_required")
            /\ UNCHANGED inflight
       ELSE IF TwoFactorVerifyView_not_found(user_id)
       THEN /\ authReq' = [view |-> "2fa_verify", user_id |-> user_id,
                           code |-> code, backup_code |-> backup_code]
            /\ authResp' = AuthResponse("2fa_verify", 400, "not_enabled")
            /\ UNCHANGED inflight
       ELSE /\ inflight' = [inflight EXCEPT ![h] =
                               [pc |-> "loaded", user_id |-> user_id, code |-> code,
                                backup_code |-> backup_code,
                                two_factor |-> twoFactor[user_id]]]
            /\ UNCHANGED <<authReq, authResp>>
    /\ UNCHANGED <<users, twoFactor, passwordStepDone, usedBackupCodes, disk>>
    /\ UNCHANGED <<dbVars, llmVars, exportVars, astVars>>

\* TwoFactorVerifyView.post line 113-146 in worker h, on the row it loaded.
TwoFactorVerifyView_post_respond(h) ==
    /\ inflight[h].pc = "loaded"
    /\ authReq' = [view |-> "2fa_verify", user_id |-> inflight[h].user_id,
                   code |-> inflight[h].code,
                   backup_code |-> inflight[h].backup_code]
    /\ TwoFactorVerifyView_finish(inflight[h].user_id, inflight[h].two_factor,
                                  inflight[h].code, inflight[h].backup_code)
    /\ inflight' = [inflight EXCEPT ![h] = NoVerify]
    /\ UNCHANGED <<users, disk>>
    /\ UNCHANGED <<dbVars, llmVars, exportVars, astVars>>

TwoFactorConcInit ==
    /\ TwoFactorInit
    /\ inflight = [h \in Handlers |-> NoVerify]
    /\ disk = <<>>

TwoFactorConcNext ==
    \/ \E secret \in Secrets : TwoFactorSetupView_get(1, FALSE, secret)
    \/ \E code \in Secrets : TwoFactorSetupView_post(1, code)
    \/ TwoFactorDisableView_post(1)
    \/ \E h \in Handlers, user_id \in {1, 2}, code \in Secrets \cup {NoVal},
          backup_code \in BackupCodes \cup {NoBackupCode} :
          TwoFactorVerifyView_post_load(h, user_id, code, backup_code)
    \/ \E h \in Handlers : TwoFactorVerifyView_post_respond(h)

TwoFactorConcSpecInit ==
    DbIdle /\ TwoFactorConcInit /\ LlmIdle /\ ExportIdle /\ AstIdle

TwoFactorConcSpec == TwoFactorConcSpecInit /\ [][TwoFactorConcNext]_vars

\* C17: each backup code is accepted at most once: a request that
\* authenticates by a backup code presents a code no earlier request has
\* authenticated with, and afterwards the code is no longer among the user's
\* backup_codes; this holds for later and for concurrent requests.
C17_BackupCodeAcceptedAtMostOnce ==
    [][ \A h \in Handlers :
          ( /\ inflight[h].pc = "loaded" /\ inflight'[h] = NoVerify
            /\ inflight[h].code = NoVal
            /\ authResp'.access # NoId )
          => /\ <<inflight[h].user_id, inflight[h].backup_code>>
                    \notin usedBackupCodes
             /\ inflight[h].backup_code
                    \notin twoFactor'[inflight[h].user_id].backup_codes
      ]_vars

\* C19: after TwoFactorDisableView.post the user's record has is_enabled
\* false, secret_key null and no backup codes; a TwoFactorVerifyView request
\* for the user that arrives while the record is disabled is refused at the
\* lookup, and the record becomes enabled again only by the user's
\* TwoFactorSetupView.post.
C19_DisabledUntilSetupAndActivation ==
    [][ \A u \in DOMAIN twoFactor :
          /\ (authReq'.view = "2fa_disable" /\ authReq'.user = u)
                => twoFactor'[u] = NewTwoFactor
          /\ ~twoFactor[u].is_enabled
                => \A h \in Handlers :
                      inflight[h] = NoVerify
                      => ~(inflight'[h].pc = "loaded" /\ inflight'[h].user_id = u)
          /\ (~twoFactor[u].is_enabled /\ twoFactor'[u].is_enabled)
                => (authReq'.view = "2fa_setup_post" /\ authReq'.user = u)
      ]_vars

(***************************************************************************)
(*                  authentication/password_reset.py                       *)
(***************************************************************************)

\* The number of password changes a behaviour follows.
MaxResets == 1

\* The uid values a request carries (a string, or absent), and what
\* force_str(urlsafe_base64_decode(uid)) makes of each: "MQ", "Mg" and "Mw"
\* encode the keys 1, 2 and 3, "YWJj" encodes "abc", and "_w" decodes to the
\* byte 0xFF, which force_str cannot decode (a ValueError).
Uids == {"MQ", "Mg", "Mw", "YWJj", "_w", NoVal}

urlsafe_base64_decode(uid) ==
    CASE uid = "MQ"   -> "1"
      [] uid = "Mg"   -> "2"
      [] uid = "Mw"   -> "3"
      [] uid = "YWJj" -> "abc"
      [] OTHER        -> "ValueError"

\* User.objects.get(pk=user_id): the users with that key; a key that is no
\* number raises ValueError and finds nobody.
UsersByPk(user_id) ==
    LET pk == CASE user_id = "1" -> 1
                [] user_id = "2" -> 2
                [] user_id = "3" -> 3
                [] OTHER         -> NoId
    IN {u \in users : u.id = pk}

\* default_token_generator.make_token(user): a keyed hash over the user's key
\* and stored password hash (and the time, see check_token).
make_token(user) ==
    [user |-> user.id, password |-> user.password, salt |-> user.salt]

\* A token that no make_token call produced.
GarbageToken == [user |-> NoId, password |-> NoVal, salt |-> 0]

\* The tokens a request carries: any token ever made for a user, a garbage
\* string, or none.
NoToken == [user |-> NoId, password |-> NoVal, salt |-> MaxResets + 1]
ResetTokens ==
    [user : {1, 2}, password : Passwords, salt : 0..MaxResets]
        \cup {GarbageToken, NoToken}

\* check_token accepting a token made for any user.
check_token_of_any_user(user, token, expired) ==
    ~expired /\ \E v \in users : token = make_token(v)

\* default_token_generator.check_token(user, token): the token is the one
\* make_token yields for the user as stored now, and PASSWORD_RESET_TIMEOUT
\* has not passed since it was made (expired).
check_token(user, token, expired) ==
    ~expired /\ token = make_token(user)

\* verify_password_reset_token (password_reset.py:63-96): the whole handler.
verify_password_reset_token(uid, token, expired) ==
    LET found == UsersByPk(urlsafe_base64_decode(uid)) IN
    /\ authReq' = [view |-> "verify_password_reset_token", uid |-> uid,
                   token |-> token, expired |-> expired]
    /\ authResp' =
          IF uid = NoVal \/ token = NoToken
          THEN AuthResponse("verify_password_reset_token", 400, "required")
          ELSE IF found = {}
          THEN AuthResponse("verify_password_reset_token", 200, "invalid")
          ELSE IF check_token(CHOOSE u \in found : TRUE, token, expired)
          THEN AuthResponse("verify_password_reset_token", 200, "valid")
          ELSE AuthResponse("verify_password_reset_token", 200, "invalid")
    /\ UNCHANGED <<users, twoFactor, passwordStepDone, usedBackupCodes>>
    /\ UNCHANGED <<dbVars, llmVars, exportVars, astVars, concVars>>

\* reset_password (password_reset.py:99-136): the whole handler.
reset_password(uid, token, password, expired) ==
    LET found == UsersByPk(urlsafe_base64_decode(uid)) IN
    /\ authReq' = [view |-> "reset_password", uid |-> uid, token |-> token,
                   password |-> password, expired |-> expired]
    /\ IF uid = NoVal \/ token = NoToken \/ password = NoVal
       THEN /\ authResp' = AuthResponse("reset_password", 400, "required")
            /\ UNCHANGED users
       ELSE IF found = {}
       THEN /\ authResp' = AuthResponse("reset_password", 400, "invalid_user_id")
            /\ UNCHANGED users
       ELSE LET user == CHOOSE u \in found : TRUE IN
            IF check_token(user, token, expired)
            THEN /\ user.salt < MaxResets
                 /\ users' = (users \ {user}) \cup
                        {[user EXCEPT !.password = password, !.salt = @ + 1]}
                 /\ authResp' = AuthResponse("reset_password", 200, "reset")
            ELSE /\ authResp' = AuthResponse("reset_password", 400, "invalid_token")
                 /\ UNCHANGED users
    /\ UNCHANGED <<twoFactor, passwordStepDone, usedBackupCodes>>
    /\ UNCHANGED <<dbVars, llmVars, exportVars, astVars, concVars>>

ResetNext ==
    \/ \E uid \in Uids, token \in ResetTokens, expired \in BOOLEAN :
          verify_password_reset_token(uid, token, expired)
    \/ \E uid \in Uids, token \in ResetTokens, password \in Passwords \cup {NoVal},
          expired \in BOOLEAN :
          reset_password(uid, token, password, expired)

ResetSpecInit ==
    DbIdle /\ TwoFactorInit /\ LlmIdle /\ ExportIdle /\ AstIdle /\ ConcIdle

ResetSpec == ResetSpecInit /\ [][ResetNext]_vars

\* C20: reset_password changes a user's password only when the presented
\* token is valid for the user identified by uid, and then to the password
\* of the request; on every error response (missing field, invalid uid,
\* invalid or expired token) the stored passwords are unchanged.
C20_PasswordChangedOnlyWithValidToken ==
    [][ /\ \A u \in users :
              u \notin users'
              => /\ authReq'.view = "reset_password"
                 /\ UsersByPk(urlsafe_base64_decode(authReq'.uid)) = {u}
                 /\ ~authReq'.expired
                 /\ authReq'.token = [user |-> u.id, password |-> u.password,
                                      salt |-> u.salt]
                 /\ authResp'.code = 200
                 /\ users' = (users \ {u}) \cup
                       {[u EXCEPT !.password = authReq'.password, !.salt = @ + 1]}
        /\ (authReq'.view = "reset_password" /\ authResp'.code # 200)
              => users' = users
      ]_vars

\* C20 witness: a reset with the token made for user 1 changed that user's
\* password, and the token of the other user was not accepted for it.
C20_Witness ==
    /\ authReq.view = "reset_password" /\ authReq.uid = "MQ"
    /\ authResp.code = 200
    /\ \E u \in users : u.id = 1 /\ u.password = "p2" /\ u.salt = 1
    /\ \E u \in users : u.id = 2 /\ u.password = "p2" /\ u.salt = 0

(***************************************************************************)
(*   authentication/views.py register handled by concurrent workers: the   *)
(*   existence checks and create_user are separate queries, with no        *)
(*   transaction around them.  auth.User.username is unique in the         *)
(*   database; auth.User.email is not.                                     *)
(***************************************************************************)

\* A worker that handles no registration.
NoRegistration == [pc |-> "idle"]

RegisterRequest(email, username) ==
    [view |-> "register", email |-> email, username |-> username]

\* register line 25-59 in worker h: the required fields, the password
\* confirmation and the first existence checks.
register_validate(h, email, username, password, confirm_password) ==
    /\ inflight[h].pc = "idle"
    /\ IF \/ email = NoVal \/ username = NoVal \/ password = NoVal
          \/ password # confirm_password
          \/ \E u \in users : u.email = email
          \/ \E u \in users : u.username = username
       THEN /\ authReq' = RegisterRequest(email, username)
            /\ authResp' = AuthResponse("register", 400, "rejected")
            /\ UNCHANGED inflight
       ELSE /\ inflight' = [inflight EXCEPT ![h] =
                               [pc |-> "validated", email |-> email,
                                username |-> username, password |-> password]]
            /\ UNCHANGED <<authReq, authResp>>
    /\ UNCHANGED <<users, twoFactor, passwordStepDone, usedBackupCodes, disk>>
    /\ UNCHANGED <<dbVars, llmVars, exportVars, astVars>>

\* register line 63-76 in worker h: the second existence checks.
register_double_check(h) ==
    /\ inflight[h].pc = "validated"
    /\ IF \/ \E u \in users : u.email = inflight[h].email
          \/ \E u \in users : u.username = inflight[h].username
       THEN /\ authReq' = RegisterRequest(inflight[h].email, inflight[h].username)
            /\ authResp' = AuthResponse("register", 400, "rejected")
            /\ inflight' = [inflight EXCEPT ![h] = NoRegistration]
       ELSE /\ inflight' = [inflight EXCEPT ![h].pc = "double_checked"]
            /\ UNCHANGED <<authReq, authResp>>
    /\ UNCHANGED <<users, twoFactor, passwordStepDone, usedBackupCodes, disk>>
    /\ UNCHANGED <<dbVars, llmVars, exportVars, astVars>>

\* register line 78-98 in worker h: User.objects.create_user, which the
\* database refuses with IntegrityError when the username is taken; the
\* except branch answers 500.
register_create(h) ==
    LET id   == Cardinality(users) + 1
        user == [id |-> id, username |-> inflight[h].username,
                 email |-> inflight[h].email,
                 password |-> inflight[h].password, salt |-> 0]
    IN
    /\ inflight[h].pc = "double_checked"
    /\ authReq' = RegisterRequest(inflight[h].email, inflight[h].username)
    /\ IF \E u \in users : u.username = inflight[h].username
       THEN /\ authResp' = AuthResponse("register", 500, "IntegrityError")
            /\ UNCHANGED <<users, twoFactor>>
       ELSE /\ users' = users \cup {user}
            /\ twoFactor' = twoFactor @@ (id :> NewTwoFactor)
            /\ authResp' = AuthResponse("register", 201, "registered")
    /\ inflight' = [inflight EXCEPT ![h] = NoRegistration]
    /\ UNCHANGED <<passwordStepDone, usedBackupCodes, disk>>
    /\ UNCHANGED <<dbVars, llmVars, exportVars, astVars>>

RegisterConcInit ==
    /\ AuthInit
    /\ inflight = [h \in Handlers |-> NoRegistration]
    /\ disk = <<>>

RegisterConcNext ==
    \E h \in Handlers :
        \/ \E e \in Emails \cup {NoVal}, n \in Usernames \cup {NoVal},
              pw \in Passwords, cpw \in Passwords :
              register_validate(h, e, n, pw, cpw)
        \/ register_double_check(h)
        \/ register_create(h)

RegisterConcSpecInit ==
    DbIdle /\ RegisterConcInit /\ LlmIdle /\ ExportIdle /\ AstIdle

RegisterConcSpec == RegisterConcSpecInit /\ [][RegisterConcNext]_vars

\* C21: register never creates two users with the same email or the same
\* username, also when registrations carrying the same email or username are
\* handled concurrently.
C21_NoDuplicateEmailOrUsername ==
    \A u \in users, v \in users :
        u # v => (u.email # v.email /\ u.username # v.username)

=============================================================================
